---- MODULE Spec2Model ----
(***************************************************************************)
(* Model of the WarEra citizenship tracker: the API client                 *)
(* (src/services/api.ts) and the tracker view                              *)
(* (src/views/CitizenshipTracker.vue).                                     *)
(*                                                                         *)
(* Five specifications share the variables:                                *)
(*   Spec        the request orchestration of fetchPlayersAndChanges and   *)
(*               the user's actions on the view while it runs;             *)
(*   SpecLive    Spec, with every issued request eventually answered;      *)
(*   SpecCache   the country cache under interleaved getCountryById and    *)
(*               getAllCountries calls;                                    *)
(*   SpecActive  getUserLite's derivation of `active`;                     *)
(*   SpecView    the computed views allChanges and filteredChanges.        *)
(* Each specification holds the variables of the others at their initial   *)
(* values.                                                                 *)
(***************************************************************************)
EXTENDS Integers, Sequences, FiniteSets, TLC

VARIABLES
    \* ---- CitizenshipTracker.vue refs
    authToken, selectedCountryId, loading, players, error, progress, stats,
    sortOrder, filterSourceCountryId, filterDestinationCountryId,
    filterStartDate, filterEndDate,
    \* ---- WarEraAPI fields
    apiToken, countryCache,
    \* ---- continuations of fetchPlayersAndChanges (one record per started run)
    runs, runCount,
    \* ---- continuations of getCountryById / getAllCountries, and what they sent
    calls,
    \* ---- the browser: clock and time zone; the last getUserLite result
    now, tz, userLite

runVars   == <<authToken, selectedCountryId, loading, players, error, progress,
               stats, apiToken, runs, runCount>>
viewVars  == <<sortOrder, filterSourceCountryId, filterDestinationCountryId,
               filterStartDate, filterEndDate>>
cacheVars == <<countryCache, calls>>
clockVars == <<now, tz>>
vars == <<runVars, viewVars, cacheVars, clockVars, userLite>>

(***************************************************************************)
(* Bounds of the model.                                                    *)
(***************************************************************************)
MaxRuns   == 2      \* runs of fetchPlayersAndChanges started in one behaviour
MaxRoster == 2      \* users in one roster page
MaxCalls  == 3      \* country calls of the API client in flight at once
MaxRows   == 2      \* change records held by the players of SpecView

Users     == {"u1", "u2", "u3"}
Countries == {"c1", "c2"}
Tokens    == {"", "tok"}

(***************************************************************************)
(* Time.  Instants are milliseconds since the epoch, as Date.getTime().     *)
(* A time zone is [base, shift, at]: the local offset is base before the    *)
(* instant `at` and base + shift from it on (a daylight-saving change).     *)
(***************************************************************************)
MsPerHour == 60 * 60 * 1000
MsPerDay  == 24 * MsPerHour

\* A date string is modelled by the instant it denotes (>= 0) when it is a
\* parsable ISO string; NoDate is an absent or empty string (falsy), BadDate a
\* non-empty string that does not parse.  NaN is the time value of an
\* invalid Date.
NoDate  == 0 - 1
BadDate == 0 - 2
NaN     == 0 - 3

Offset(z, t) == IF t >= z.at THEN z.base + z.shift ELSE z.base

ToLocal(z, t) == t + Offset(z, t)

\* The instant of a local time value: the offset before the change is used
\* when the local time is ambiguous or skipped.
FromLocal(z, l) ==
    LET t1 == l - z.base
        t2 == l - z.base - z.shift
    IN  IF t1 < z.at THEN t1
        ELSE IF t2 >= z.at THEN t2
        ELSE t1

\* Date.prototype.setDate(getDate() + n): same local wall-clock time, n
\* calendar days later.
SetDatePlus(z, t, n) == FromLocal(z, ToLocal(z, t) + n * MsPerDay)

\* Date.prototype.setHours(0, 0, 0, 0) and setHours(23, 59, 59, 999).
StartOfLocalDay(z, t) ==
    FromLocal(z, (ToLocal(z, t) \div MsPerDay) * MsPerDay)
EndOfLocalDay(z, t) ==
    FromLocal(z, (ToLocal(z, t) \div MsPerDay) * MsPerDay + (MsPerDay - 1))

\* new Date(s) of a string: "" and unparsable strings give an invalid Date;
\* an ISO instant is modelled by its time value.
ParseDate(s) == IF s >= 0 THEN s ELSE NaN

\* new Date("YYYY-MM-DD"): a date-only string is read as UTC midnight.
\* The day is modelled by its number since the epoch.
ParseDateOnly(d) == d * MsPerDay

\* a >= b and a <= b on Dates: false when either is invalid.
DateGE(a, b) == a # NaN /\ b # NaN /\ a >= b
DateLE(a, b) == a # NaN /\ b # NaN /\ a <= b

(***************************************************************************)
(* WarEraAPI.getUserLite: the derived field `active`.                      *)
(***************************************************************************)
TenDays == 10

TenDaysAgo(z, t) == SetDatePlus(z, t, 0 - TenDays)

\* Variant: the boundary compared with > instead of >=.
ActiveMutStrict(lastConnectionAt, z, t) ==
    IF lastConnectionAt # NoDate
    THEN ParseDate(lastConnectionAt) # NaN
         /\ ParseDate(lastConnectionAt) > TenDaysAgo(z, t)
    ELSE FALSE

Active(lastConnectionAt, z, t) ==
    IF lastConnectionAt # NoDate
    THEN DateGE(ParseDate(lastConnectionAt), TenDaysAgo(z, t))
    ELSE FALSE

\* The record getUserLite returns for a response carrying lastConnectionAt.
GetUserLiteData(userId, lastConnectionAt, z, t) ==
    [id |-> userId, username |-> userId,
     lastConnectionAt |-> lastConnectionAt,
     active |-> Active(lastConnectionAt, z, t)]

(***************************************************************************)
(* The upstream service: what a request can come back with.                *)
(***************************************************************************)
SeqsUpTo(S, n) == UNION {[1..k -> S] : k \in 0..n}

\* A roster page lists each user once.
Rosters ==
    {s \in SeqsUpTo(Users, MaxRoster) :
        \A i, j \in DOMAIN s : i # j => s[i] # s[j]}

\* A page is the `data` of a response; `items` may be absent.
Page(items)  == [hasItems |-> TRUE, items |-> items]
PageNoItems  == [hasItems |-> FALSE, items |-> <<>>]
RosterPages  == {PageNoItems} \cup {Page(s) : s \in Rosters}

\* A CitizenshipChange, with the current and the legacy field names of data.
Change(createdAt, timestamp, fromCountryId, from, toCountryId, to) ==
    [createdAt |-> createdAt, timestamp |-> timestamp,
     fromCountryId |-> fromCountryId, from |-> from,
     toCountryId |-> toCountryId, to |-> to]

DayMs(d) == d * MsPerDay

RunChange   == Change(DayMs(3), NoDate, "c1", "", "c2", "")
ChangePages == {PageNoItems, Page(<<RunChange>>)}

\* The clock and zone the orchestration is explored under, and the
\* last-connection values a user-lite response may carry there.
RunNow  == DayMs(20)
UTC     == [base |-> 0, shift |-> 0, at |-> 0]
RunLastConnections == {NoDate, RunNow - 11 * MsPerDay, RunNow - MsPerDay}

\* response.items || []
ItemsOr(page) == IF page.hasItems THEN page.items ELSE <<>>

NetworkError == "Network Error"
AuthRequired == "Authorization token is required for this operation"

\* A request handed to axios.get: the endpoint, its input and the
\* Authorization header (NoHeader when the call sets none).
NoHeader == "<no header>"
Request(kind, arg, auth) == [kind |-> kind, arg |-> arg, auth |-> auth]

(***************************************************************************)
(* WarEraAPI.setAuthToken and the guard of getCitizenshipChanges.          *)
(***************************************************************************)
\* Variant: the guard of getCitizenshipChanges left out.
TokenMissingMutNever(token) == FALSE

\* if (!this.authToken) throw ...
TokenMissing(token) == token = ""

(***************************************************************************)
(* CitizenshipTracker.vue: user actions.                                   *)
(***************************************************************************)
HandleAuthTokenChange(t) ==
    /\ t # authToken
    /\ authToken' = t
    /\ apiToken' = t
    /\ UNCHANGED <<selectedCountryId, loading, players, error, progress, stats,
                   runs, runCount>>
    /\ UNCHANGED <<viewVars, cacheVars, clockVars, userLite>>

\* CountrySelect emits update:modelValue with a country id or ''.
SelectCountry(c) ==
    /\ c # selectedCountryId
    /\ selectedCountryId' = c
    /\ UNCHANGED <<authToken, apiToken, loading, players, error, progress,
                   stats, runs, runCount>>
    /\ UNCHANGED <<viewVars, cacheVars, clockVars, userLite>>

\* Variant: the button not disabled while loading.
FetchDisabledMutNoLoading == selectedCountryId = "" \/ authToken = ""

\* :disabled of the Fetch Players button.
FetchDisabled == loading \/ selectedCountryId = "" \/ authToken = ""

(***************************************************************************)
(* fetchPlayersAndChanges.  A run is the continuation of one call:         *)
(*   pc        where it is suspended (awaitRoster, awaitUserLite,          *)
(*             awaitChanges) or done;                                      *)
(*   allUsers  the roster, i the position of the user being processed;     *)
(*   reqs      the requests it has handed to axios, in order;              *)
(*   lite      the outcome of getUserLite for the users processed          *)
(*             (failed, or the `active` it returned);                      *)
(*   changeCalls  the calls of getCitizenshipChanges: the user, the token  *)
(*             stored when it was called, and the outcome (pending, ok     *)
(*             with the items taken from the response, or failed);         *)
(*   roster    pending, ok or failed.                                      *)
(* A finished run is kept until the next one starts.                       *)
(***************************************************************************)
Live(rs) == {r \in DOMAIN rs : rs[r].pc # "done"}

Outstanding == Live(runs)

PlayerError(msg) == "Failed to load citizenship changes: " \o msg
RosterError(msg) == "Failed to fetch players: " \o msg

\* An assignment to a field of the playerData object of a run: it shows in
\* players when the object is still held by the list.
SetPlayer(ps, oid, changes, err) ==
    [k \in DOMAIN ps |->
        IF ps[k].oid = oid
        THEN [ps[k] EXCEPT !.citizenshipChanges = changes,
                           !.error = err,
                           !.loading = FALSE]
        ELSE ps[k]]

\* The outcome of the last getCitizenshipChanges call of a run.
Settle(run, outcome, items) ==
    [run EXCEPT !.changeCalls[Len(run.changeCalls)] =
        [@ EXCEPT !.outcome = outcome, !.items = items]]

\* Variant: the loop does not count the user it starts on.
AdvanceMutNoProgress(r, run, prog) ==
    IF run.i < Len(run.allUsers)
    THEN /\ runs' = [runs EXCEPT ![r] =
                  [run EXCEPT !.pc = "awaitUserLite",
                              !.i = run.i + 1,
                              !.reqs = Append(run.reqs,
                                  Request("userLite", run.allUsers[run.i + 1],
                                          NoHeader))]]
         /\ progress' = prog
         /\ loading' = loading
    ELSE /\ runs' = [runs EXCEPT ![r] = [run EXCEPT !.pc = "done"]]
         /\ progress' = prog
         /\ loading' = FALSE

\* The next iteration of the for loop, or the finally block after the last.
Advance(r, run, prog) ==
    IF run.i < Len(run.allUsers)
    THEN /\ runs' = [runs EXCEPT ![r] =
                  [run EXCEPT !.pc = "awaitUserLite",
                              !.i = run.i + 1,
                              !.reqs = Append(run.reqs,
                                  Request("userLite", run.allUsers[run.i + 1],
                                          NoHeader))]]
         /\ progress' = [prog EXCEPT !.current = prog.current + 1]
         /\ loading' = loading
    ELSE /\ runs' = [runs EXCEPT ![r] = [run EXCEPT !.pc = "done"]]
         /\ progress' = prog
         /\ loading' = FALSE

FetchPlayersAndChanges ==
    IF selectedCountryId = ""
    THEN /\ error' = "Please select a country"
         /\ UNCHANGED <<loading, players, progress, stats, runs, runCount>>
    ELSE IF authToken = ""
    THEN /\ error' = "Please enter an authorization token"
         /\ UNCHANGED <<loading, players, progress, stats, runs, runCount>>
    ELSE /\ loading' = TRUE
         /\ error' = ""
         /\ players' = <<>>
         /\ progress' = [current |-> 0, total |-> 0]
         /\ stats' = [total |-> 0, active |-> 0, inactive |-> 0]
         /\ runCount' = runCount + 1
         /\ runs' = [r \in Live(runs) \cup {runCount + 1} |->
                IF r = runCount + 1
                THEN [pc |-> "awaitRoster", country |-> selectedCountryId,
                      allUsers |-> <<>>, i |-> 0, lite |-> <<>>,
                      changeCalls |-> <<>>,
                      roster |-> "pending",
                      reqs |-> <<Request("roster", selectedCountryId, NoHeader)>>]
                ELSE runs[r]]

ClickFetch ==
    /\ ~FetchDisabled
    /\ runCount < MaxRuns
    /\ FetchPlayersAndChanges
    /\ UNCHANGED <<authToken, apiToken, selectedCountryId>>
    /\ UNCHANGED <<viewVars, cacheVars, clockVars, userLite>>

\* Variant: the outer catch sets no error message.
RosterFailedMutSilent(r) ==
    /\ r \in DOMAIN runs /\ runs[r].pc = "awaitRoster"
    /\ loading' = FALSE
    /\ runs' = [runs EXCEPT ![r] = [@ EXCEPT !.pc = "done", !.roster = "failed"]]
    /\ UNCHANGED <<authToken, apiToken, selectedCountryId, players, progress,
                   stats, runCount, error>>
    /\ UNCHANGED <<viewVars, cacheVars, clockVars, userLite>>

\* Variant: no finally block, loading is not reset after the outer catch.
RosterFailedMutNoFinally(r) ==
    /\ r \in DOMAIN runs /\ runs[r].pc = "awaitRoster"
    /\ error' = RosterError(NetworkError)
    /\ runs' = [runs EXCEPT ![r] = [@ EXCEPT !.pc = "done", !.roster = "failed"]]
    /\ UNCHANGED <<authToken, apiToken, selectedCountryId, players, progress,
                   stats, runCount, loading>>
    /\ UNCHANGED <<viewVars, cacheVars, clockVars, userLite>>

\* await api.getUsersByCountry(...) rejects: the outer catch and finally.
RosterFailed(r) ==
    /\ r \in DOMAIN runs /\ runs[r].pc = "awaitRoster"
    /\ error' = RosterError(NetworkError)
    /\ loading' = FALSE
    /\ runs' = [runs EXCEPT ![r] = [@ EXCEPT !.pc = "done", !.roster = "failed"]]
    /\ UNCHANGED <<authToken, apiToken, selectedCountryId, players, progress,
                   stats, runCount>>
    /\ UNCHANGED <<viewVars, cacheVars, clockVars, userLite>>

RosterLoaded(r, page) ==
    /\ r \in DOMAIN runs /\ runs[r].pc = "awaitRoster"
    /\ LET allUsers == ItemsOr(page)
           run == [runs[r] EXCEPT !.allUsers = allUsers, !.roster = "ok"]
       IN  /\ stats' = [stats EXCEPT !.total = Len(allUsers)]
           /\ Advance(r, run, [progress EXCEPT !.total = Len(allUsers)])
    /\ UNCHANGED <<authToken, apiToken, selectedCountryId, players, error,
                   runCount>>
    /\ UNCHANGED <<viewVars, cacheVars, clockVars, userLite>>

\* Variant: no inner try/catch, a getUserLite failure reaches the outer catch.
UserLiteFailedMutAbort(r) ==
    /\ r \in DOMAIN runs /\ runs[r].pc = "awaitUserLite"
    /\ error' = RosterError(NetworkError)
    /\ loading' = FALSE
    /\ runs' = [runs EXCEPT ![r] =
                  [@ EXCEPT !.pc = "done", !.lite = Append(@, "failed")]]
    /\ UNCHANGED <<authToken, apiToken, selectedCountryId, players, progress,
                   stats, runCount>>
    /\ UNCHANGED <<viewVars, cacheVars, clockVars, userLite>>

\* await api.getUserLite(...) rejects: the inner catch logs and the loop
\* goes on.
UserLiteFailed(r) ==
    /\ r \in DOMAIN runs /\ runs[r].pc = "awaitUserLite"
    /\ Advance(r, [runs[r] EXCEPT !.lite = Append(@, "failed")], progress)
    /\ UNCHANGED <<authToken, apiToken, selectedCountryId, players, error,
                   stats, runCount>>
    /\ UNCHANGED <<viewVars, cacheVars, clockVars, userLite>>

\* Variant: inactive users are not skipped.
SkipsUserMutNever(data) == FALSE

\* if (!userLite.active) { stats.value.inactive++; continue }
SkipsUser(data) == ~data.active

UserLiteLoaded(r, lastConnectionAt) ==
    /\ r \in DOMAIN runs /\ runs[r].pc = "awaitUserLite"
    /\ LET user == runs[r].allUsers[runs[r].i]
           data == GetUserLiteData(user, lastConnectionAt, tz, now)
           run  == [runs[r] EXCEPT !.lite =
                       Append(@, IF data.active THEN "active" ELSE "inactive")]
           called == [run EXCEPT !.changeCalls =
                       Append(@, [user |-> user, token |-> apiToken,
                                  outcome |-> IF TokenMissing(apiToken)
                                              THEN "failed" ELSE "pending",
                                  items |-> <<>>])]
           playerData == [oid |-> <<r, run.i>>, user |-> data,
                          citizenshipChanges |-> <<>>, loading |-> TRUE,
                          error |-> ""]
       IN  IF SkipsUser(data)
           THEN /\ stats' = [stats EXCEPT !.inactive = @ + 1]
                /\ players' = players
                /\ Advance(r, run, progress)
           ELSE /\ stats' = [stats EXCEPT !.active = @ + 1]
                /\ IF TokenMissing(apiToken)
                   THEN \* getCitizenshipChanges throws before any request
                        /\ players' = SetPlayer(Append(players, playerData),
                                         playerData.oid, <<>>,
                                         PlayerError(AuthRequired))
                        /\ Advance(r, called, progress)
                   ELSE /\ players' = Append(players, playerData)
                        /\ runs' = [runs EXCEPT ![r] =
                              [called EXCEPT !.pc = "awaitChanges",
                                          !.reqs = Append(@,
                                              Request("changes", user, apiToken))]]
                        /\ UNCHANGED <<progress, loading>>
    /\ UNCHANGED <<authToken, apiToken, selectedCountryId, error, runCount>>
    /\ UNCHANGED <<viewVars, cacheVars, clockVars, userLite>>

\* Variant: the catch of the change-log request does not reset loading.
ChangesFailedMutStillLoading(r) ==
    /\ r \in DOMAIN runs /\ runs[r].pc = "awaitChanges"
    /\ players' = [k \in DOMAIN players |->
                       IF players[k].oid = <<r, runs[r].i>>
                       THEN [players[k] EXCEPT
                                !.error = PlayerError(NetworkError)]
                       ELSE players[k]]
    /\ Advance(r, Settle(runs[r], "failed", <<>>), progress)
    /\ UNCHANGED <<authToken, apiToken, selectedCountryId, error, stats,
                   runCount>>
    /\ UNCHANGED <<viewVars, cacheVars, clockVars, userLite>>

\* await api.getCitizenshipChanges(...) rejects with the network's error.
ChangesFailed(r) ==
    /\ r \in DOMAIN runs /\ runs[r].pc = "awaitChanges"
    /\ players' = SetPlayer(players, <<r, runs[r].i>>, <<>>,
                            PlayerError(NetworkError))
    /\ Advance(r, Settle(runs[r], "failed", <<>>), progress)
    /\ UNCHANGED <<authToken, apiToken, selectedCountryId, error, stats,
                   runCount>>
    /\ UNCHANGED <<viewVars, cacheVars, clockVars, userLite>>

ChangesLoaded(r, page) ==
    /\ r \in DOMAIN runs /\ runs[r].pc = "awaitChanges"
    /\ players' = SetPlayer(players, <<r, runs[r].i>>, ItemsOr(page), "")
    /\ Advance(r, Settle(runs[r], "ok", ItemsOr(page)), progress)
    /\ UNCHANGED <<authToken, apiToken, selectedCountryId, error, stats,
                   runCount>>
    /\ UNCHANGED <<viewVars, cacheVars, clockVars, userLite>>

(***************************************************************************)
(* Initial values of the variables each specification leaves alone.        *)
(***************************************************************************)
InitRunVars ==
    /\ authToken = "" /\ apiToken = "" /\ selectedCountryId = ""
    /\ loading = FALSE /\ players = <<>> /\ error = ""
    /\ progress = [current |-> 0, total |-> 0]
    /\ stats = [total |-> 0, active |-> 0, inactive |-> 0]
    /\ runs = <<>> /\ runCount = 0

InitViewVars ==
    /\ sortOrder = "desc"
    /\ filterSourceCountryId = "" /\ filterDestinationCountryId = ""
    /\ filterStartDate = NoDate /\ filterEndDate = NoDate

InitCacheVars ==
    /\ countryCache = <<>> /\ calls = <<>>

InitClockVars == now = RunNow /\ tz = UTC

InitUserLite == userLite = GetUserLiteData("u1", NoDate, UTC, RunNow)

(***************************************************************************)
(* Spec: the orchestration.                                                *)
(***************************************************************************)
Init ==
    /\ InitRunVars /\ InitViewVars /\ InitCacheVars /\ InitClockVars
    /\ InitUserLite

Next ==
    \/ \E t \in Tokens : HandleAuthTokenChange(t)
    \/ \E c \in Countries \cup {""} : SelectCountry(c)
    \/ ClickFetch
    \/ \E r \in 1..MaxRuns : RosterFailed(r)
    \/ \E r \in 1..MaxRuns, page \in RosterPages : RosterLoaded(r, page)
    \/ \E r \in 1..MaxRuns : UserLiteFailed(r)
    \/ \E r \in 1..MaxRuns, lc \in RunLastConnections : UserLiteLoaded(r, lc)
    \/ \E r \in 1..MaxRuns : ChangesFailed(r)
    \/ \E r \in 1..MaxRuns, page \in ChangePages : ChangesLoaded(r, page)

Spec == Init /\ [][Next]_vars

\* An outstanding request of a run resolves or fails.
Respond ==
    \E r \in 1..MaxRuns :
        \/ RosterFailed(r)
        \/ \E page \in RosterPages : RosterLoaded(r, page)
        \/ UserLiteFailed(r)
        \/ \E lc \in RunLastConnections : UserLiteLoaded(r, lc)
        \/ ChangesFailed(r)
        \/ \E page \in ChangePages : ChangesLoaded(r, page)

\* Spec under a network that answers every request it is handed.
SpecLive == Init /\ [][Next]_vars /\ WF_vars(Respond)

(***************************************************************************)
(* WarEraAPI: the country cache.  A call is the continuation of one        *)
(* getCountryById or getAllCountries:                                      *)
(*   pc      await (its request is outstanding) or done;                   *)
(*   hit     the id was in the cache when the call was made, and           *)
(*   cached  the entry it had then;                                        *)
(*   sent    the call handed a request to axios;                           *)
(*   result  what it returned: <<>> for null, <<c>> for a country, or the  *)
(*           list of getAllCountries.                                      *)
(* A finished call is kept until the next one starts.                      *)
(***************************************************************************)
\* What the upstream may hold for a country at different times.
UpstreamCountry(id) ==
    {[id |-> id, name |-> "Old " \o id, code |-> "FR", flagUrl |-> ""],
     [id |-> id, name |-> "New " \o id, code |-> "", flagUrl |-> ""]}

CountryLists ==
    {<<>>}
    \cup {<<a>> : a \in UpstreamCountry("c1")}
    \cup {<<a, b>> : a \in UpstreamCountry("c1"), b \in UpstreamCountry("c2")}

ToLowerCase(code) == IF code = "FR" THEN "fr" ELSE code

\* if (country.code) country.flagUrl = `https://flagcdn.com/w40/${...}.png`
WithFlagUrl(country) ==
    IF country.code # ""
    THEN [country EXCEPT !.flagUrl =
             "https://flagcdn.com/w40/" \o ToLowerCase(country.code) \o ".png"]
    ELSE country

\* Variant: the cache is never consulted.
CacheHasMutNever(cache, id) == FALSE

\* this.countryCache.has(countryId)
CacheHas(cache, id) == id \in DOMAIN cache

\* this.countryCache.set(id, country)
CacheSet(cache, id, country) ==
    [x \in DOMAIN cache \cup {id} |-> IF x = id THEN country ELSE cache[x]]

RECURSIVE PutAllFrom(_, _, _)
PutAllFrom(cache, countries, k) ==
    IF k > Len(countries) THEN cache
    ELSE PutAllFrom(CacheSet(cache, countries[k].id, WithFlagUrl(countries[k])),
                    countries, k + 1)

\* Variant: getAllCountries rebuilds the cache from its response alone.
PutAllMutReplace(cache, countries) == PutAllFrom(<<>>, countries, 1)

\* countries.forEach(country => { ...; this.countryCache.set(country._id, country) })
PutAll(cache, countries) == PutAllFrom(cache, countries, 1)

\* The first slot no unfinished call holds.
FreeCall ==
    CHOOSE k \in (1..MaxCalls) \ Live(calls) :
        \A j \in (1..MaxCalls) \ Live(calls) : k <= j

StartCall(call) ==
    calls' = [k \in Live(calls) \cup {FreeCall} |->
                 IF k = FreeCall THEN call ELSE calls[k]]

GetCountryById(id) ==
    /\ Cardinality(Live(calls)) < MaxCalls
    /\ LET hit    == id \in DOMAIN countryCache
           cached == IF hit THEN <<countryCache[id]>> ELSE <<>>
       IN  IF CacheHas(countryCache, id)
           THEN StartCall([op |-> "byId", id |-> id, pc |-> "done",
                           hit |-> hit, cached |-> cached, sent |-> FALSE,
                           result |-> <<countryCache[id]>>])
           ELSE StartCall([op |-> "byId", id |-> id, pc |-> "await",
                           hit |-> hit, cached |-> cached, sent |-> TRUE,
                           result |-> <<>>])
    /\ UNCHANGED countryCache
    /\ UNCHANGED <<runVars, viewVars, clockVars, userLite>>

CountryByIdLoaded(k, country) ==
    /\ k \in DOMAIN calls /\ calls[k].pc = "await" /\ calls[k].op = "byId"
    /\ country \in UpstreamCountry(calls[k].id)
    /\ countryCache' = CacheSet(countryCache, calls[k].id, WithFlagUrl(country))
    /\ calls' = [calls EXCEPT ![k] =
                    [@ EXCEPT !.pc = "done", !.result = <<WithFlagUrl(country)>>]]
    /\ UNCHANGED <<runVars, viewVars, clockVars, userLite>>

\* Variant: a failed lookup leaves a record without attributes in the cache.
CountryByIdFailedMutPartial(k) ==
    /\ k \in DOMAIN calls /\ calls[k].pc = "await" /\ calls[k].op = "byId"
    /\ calls' = [calls EXCEPT ![k] = [@ EXCEPT !.pc = "done", !.result = <<>>]]
    /\ countryCache' = CacheSet(countryCache, calls[k].id,
                                [id |-> calls[k].id, name |-> "", code |-> "",
                                 flagUrl |-> ""])
    /\ UNCHANGED <<runVars, viewVars, clockVars, userLite>>

\* The request is rejected, or reading the response throws (no result, no
\* data, a code that is no string): all before countryCache.set.
\* catch (error) { console.error(...); return null }
CountryByIdFailed(k) ==
    /\ k \in DOMAIN calls /\ calls[k].pc = "await" /\ calls[k].op = "byId"
    /\ calls' = [calls EXCEPT ![k] = [@ EXCEPT !.pc = "done", !.result = <<>>]]
    /\ UNCHANGED countryCache
    /\ UNCHANGED <<runVars, viewVars, clockVars, userLite>>

GetAllCountries ==
    /\ Cardinality(Live(calls)) < MaxCalls
    /\ StartCall([op |-> "all", id |-> "", pc |-> "await", hit |-> FALSE,
                  cached |-> <<>>, sent |-> TRUE, result |-> <<>>])
    /\ UNCHANGED countryCache
    /\ UNCHANGED <<runVars, viewVars, clockVars, userLite>>

AllCountriesLoaded(k, countries) ==
    /\ k \in DOMAIN calls /\ calls[k].pc = "await" /\ calls[k].op = "all"
    /\ countryCache' = PutAll(countryCache, countries)
    /\ calls' = [calls EXCEPT ![k] =
                    [@ EXCEPT !.pc = "done",
                              !.result = [j \in DOMAIN countries |->
                                             WithFlagUrl(countries[j])]]]
    /\ UNCHANGED <<runVars, viewVars, clockVars, userLite>>

\* catch (error) { console.error(...); return [] }
AllCountriesFailed(k) ==
    /\ k \in DOMAIN calls /\ calls[k].pc = "await" /\ calls[k].op = "all"
    /\ calls' = [calls EXCEPT ![k] = [@ EXCEPT !.pc = "done", !.result = <<>>]]
    /\ UNCHANGED countryCache
    /\ UNCHANGED <<runVars, viewVars, clockVars, userLite>>

NextCache ==
    \/ \E id \in Countries : GetCountryById(id)
    \/ \E k \in 1..MaxCalls, id \in Countries :
           \E c \in UpstreamCountry(id) : CountryByIdLoaded(k, c)
    \/ \E k \in 1..MaxCalls : CountryByIdFailed(k)
    \/ GetAllCountries
    \/ \E k \in 1..MaxCalls, l \in CountryLists : AllCountriesLoaded(k, l)
    \/ \E k \in 1..MaxCalls : AllCountriesFailed(k)

SpecCache == Init /\ [][NextCache]_vars

(***************************************************************************)
(* SpecActive: getUserLite under a browser clock and time zone.            *)
(***************************************************************************)
ActiveNows == {DayMs(12) + 12 * MsPerHour, DayMs(13)}

Zone(base, shift, at) == [base |-> base, shift |-> shift, at |-> at]

\* Fixed-offset zones, and zones whose daylight-saving change falls inside
\* or outside the ten days before t.
ActiveZones(t) ==
    {UTC,
     Zone(2 * MsPerHour, 0, 0),
     Zone(0 - 5 * MsPerHour, 0, 0),
     Zone(MsPerHour, MsPerHour, t - 5 * MsPerDay),
     Zone(0 - 4 * MsPerHour, 0 - MsPerHour, t - 5 * MsPerDay),
     Zone(MsPerHour, MsPerHour, t + 5 * MsPerDay),
     Zone(MsPerHour, MsPerHour, t - 15 * MsPerDay)}

\* dates.lastConnectionAt of a response: absent, unparsable, or an instant
\* near ten days before t, near t, or after t.
LastConnections(t) ==
    {NoDate, BadDate, t - MsPerDay, t + MsPerHour}
    \cup {t - TenDays * MsPerDay + k * MsPerHour + e :
             k \in {0 - 1, 0, 1}, e \in {0 - 1, 0, 1}}

GetUserLite(lastConnectionAt) ==
    /\ userLite' = GetUserLiteData("u1", lastConnectionAt, tz, now)
    /\ UNCHANGED <<runVars, viewVars, cacheVars, clockVars>>

InitActive ==
    /\ InitRunVars /\ InitViewVars /\ InitCacheVars
    /\ now \in ActiveNows
    /\ tz \in ActiveZones(now)
    /\ userLite = GetUserLiteData("u1", NoDate, tz, now)

NextActive == \E lc \in LastConnections(now) : GetUserLite(lc)

SpecActive == InitActive /\ [][NextActive]_vars

(***************************************************************************)
(* CitizenshipTracker.vue: the computed views.                             *)
(***************************************************************************)
\* change.data?.fromCountryId || change.data?.from
FromCountryOf(change) ==
    IF change.fromCountryId # "" THEN change.fromCountryId ELSE change.from

\* change.data?.toCountryId || change.data?.to
ToCountryOf(change) ==
    IF change.toCountryId # "" THEN change.toCountryId ELSE change.to

\* new Date(change.createdAt || change.timestamp || '')
RowDate(change) ==
    ParseDate(IF change.createdAt # NoDate THEN change.createdAt
              ELSE change.timestamp)

\* The date the per-player timeline sorts by:
\* a.timestamp || a.createdAt || ''  (the records carry no date field).
DiagramDate(change) ==
    ParseDate(IF change.timestamp # NoDate THEN change.timestamp
              ELSE change.createdAt)

Row(player, change) ==
    [username |-> player.user.username, userId |-> player.user.id,
     change |-> change,
     fromCountryId |-> FromCountryOf(change),
     toCountryId |-> ToCountryOf(change),
     date |-> RowDate(change)]

RECURSIVE Flatten(_, _)
Flatten(ps, k) ==
    IF k > Len(ps) THEN <<>>
    ELSE [j \in DOMAIN ps[k].citizenshipChanges |->
             Row(ps[k], ps[k].citizenshipChanges[j])]
         \o Flatten(ps, k + 1)

\* The comparator of changes.sort: a difference of time values; a NaN
\* difference is taken as 0 by Array.prototype.sort.
Compare(order, a, b) ==
    IF a.date = NaN \/ b.date = NaN THEN 0
    ELSE IF order = "desc" THEN b.date - a.date
    ELSE a.date - b.date

\* Array.prototype.sort is stable: an insertion sort that moves an element
\* left only past elements that compare greater.  (With invalid dates the
\* comparator is not a consistent order and the engine fixes the result;
\* this is the result of an insertion sort.)
RECURSIVE InsertRow(_, _, _, _)
InsertRow(order, sorted, x, j) ==
    IF j = 0 \/ Compare(order, sorted[j], x) <= 0
    THEN SubSeq(sorted, 1, j) \o <<x>> \o SubSeq(sorted, j + 1, Len(sorted))
    ELSE InsertRow(order, sorted, x, j - 1)

RECURSIVE SortRows(_, _, _)
SortRows(order, rows, k) ==
    IF k = 0 THEN <<>>
    ELSE LET before == SortRows(order, rows, k - 1)
         IN  InsertRow(order, before, rows[k], Len(before))

\* The rows of allChanges under a sort order.
SortedChanges(order) ==
    SortRows(order, Flatten(players, 1), Len(Flatten(players, 1)))

AllChanges == SortedChanges(sortOrder)

\* Variant: the destination filter compares the source country.
KeepDestinationMutSource(row, f) == row.fromCountryId = f

KeepSource(row, f)      == row.fromCountryId = f
KeepDestination(row, f) == row.toCountryId = f

\* new Date(filterStartDate.value); startDate.setHours(0, 0, 0, 0)
StartDate(z, d) == StartOfLocalDay(z, ParseDateOnly(d))

\* new Date(filterEndDate.value); endDate.setHours(23, 59, 59, 999)
EndDate(z, d) == EndOfLocalDay(z, ParseDateOnly(d))

FilteredChanges ==
    LET a == AllChanges
        b == IF filterSourceCountryId # ""
             THEN SelectSeq(a, LAMBDA row : KeepSource(row, filterSourceCountryId))
             ELSE a
        c == IF filterDestinationCountryId # ""
             THEN SelectSeq(b, LAMBDA row :
                               KeepDestination(row, filterDestinationCountryId))
             ELSE b
        d == IF filterStartDate # NoDate
             THEN SelectSeq(c, LAMBDA row :
                               DateGE(row.date, StartDate(tz, filterStartDate)))
             ELSE c
        e == IF filterEndDate # NoDate
             THEN SelectSeq(d, LAMBDA row :
                               DateLE(row.date, EndDate(tz, filterEndDate)))
             ELSE d
    IN  e

\* Variant: the groups are keyed by the user identifier.
GroupKeyMutUserId(row) == row.userId

\* The key of the Map of groupedChanges.
GroupKey(row) == row.username

\* filteredChanges.value.forEach: a Map keeps its keys in insertion order.
RECURSIVE GroupFrom(_, _, _)
GroupFrom(rows, k, groups) ==
    IF k > Len(rows) THEN groups
    ELSE LET key == GroupKey(rows[k])
         IN  GroupFrom(rows, k + 1,
                 IF \E g \in DOMAIN groups : groups[g].username = key
                 THEN [g \in DOMAIN groups |->
                          IF groups[g].username = key
                          THEN [groups[g] EXCEPT !.changes = Append(@, rows[k])]
                          ELSE groups[g]]
                 ELSE Append(groups, [username |-> key, changes |-> <<rows[k]>>]))

\* Array.from(groups.entries()).map(...)
GroupedChanges ==
    LET groups == GroupFrom(FilteredChanges, 1, <<>>)
    IN  [g \in DOMAIN groups |->
            [username |-> groups[g].username,
             userId |-> groups[g].changes[1].userId,
             changes |-> groups[g].changes]]

\* sortOrder.value === 'desc' ? 'asc' : 'desc'
Toggled(order) == IF order = "desc" THEN "asc" ELSE "desc"

ToggleSort ==
    /\ sortOrder' = Toggled(sortOrder)
    /\ UNCHANGED <<filterSourceCountryId, filterDestinationCountryId,
                   filterStartDate, filterEndDate>>
    /\ UNCHANGED <<runVars, cacheVars, clockVars, userLite>>

SetFilterSource(c) ==
    /\ c # filterSourceCountryId
    /\ filterSourceCountryId' = c
    /\ UNCHANGED <<sortOrder, filterDestinationCountryId, filterStartDate,
                   filterEndDate>>
    /\ UNCHANGED <<runVars, cacheVars, clockVars, userLite>>

SetFilterDestination(c) ==
    /\ c # filterDestinationCountryId
    /\ filterDestinationCountryId' = c
    /\ UNCHANGED <<sortOrder, filterSourceCountryId, filterStartDate,
                   filterEndDate>>
    /\ UNCHANGED <<runVars, cacheVars, clockVars, userLite>>

SetFilterStartDate(d) ==
    /\ d # filterStartDate
    /\ filterStartDate' = d
    /\ UNCHANGED <<sortOrder, filterSourceCountryId,
                   filterDestinationCountryId, filterEndDate>>
    /\ UNCHANGED <<runVars, cacheVars, clockVars, userLite>>

SetFilterEndDate(d) ==
    /\ d # filterEndDate
    /\ filterEndDate' = d
    /\ UNCHANGED <<sortOrder, filterSourceCountryId,
                   filterDestinationCountryId, filterStartDate>>
    /\ UNCHANGED <<runVars, cacheVars, clockVars, userLite>>

\* The Clear Filters button, disabled when no filter is set.
ClearFilters ==
    /\ ~(filterSourceCountryId = "" /\ filterDestinationCountryId = ""
         /\ filterStartDate = NoDate /\ filterEndDate = NoDate)
    /\ filterSourceCountryId' = "" /\ filterDestinationCountryId' = ""
    /\ filterStartDate' = NoDate /\ filterEndDate' = NoDate
    /\ UNCHANGED sortOrder
    /\ UNCHANGED <<runVars, cacheVars, clockVars, userLite>>

(***************************************************************************)
(* SpecView: the views over the players a finished run has left, in a      *)
(* browser whose zone has a fixed offset.                                  *)
(***************************************************************************)
ViewZones ==
    {UTC, Zone(2 * MsPerHour, 0, 0), Zone(0 - 5 * MsPerHour, 0, 0)}

\* The days a date input is set to, and the first of them.
FilterDays == {5, 6}
FilterDay  == CHOOSE d \in FilterDays : \A e \in FilterDays : d <= e

\* The instant at which the clock of zone z reads h:m:s.ms on day d.
LocalTime(z, d, h, m, sec, ms) ==
    FromLocal(z, DayMs(d) + h * MsPerHour + m * 60000 + sec * 1000 + ms)

\* Change records around the boundaries of the local day FilterDay; one
\* carries a creation time and a different timestamp.
ChangePool(z) ==
    {Change(LocalTime(z, FilterDay, 23, 0, 0, 0), NoDate, "c1", "", "c2", ""),
     Change(LocalTime(z, FilterDay + 1, 0, 0, 1, 0), NoDate, "c2", "", "c1", ""),
     Change(LocalTime(z, FilterDay, 0, 0, 0, 0), NoDate, "", "c1", "", "c2"),
     Change(LocalTime(z, FilterDay - 1, 23, 59, 59, 999),
            LocalTime(z, FilterDay, 12, 0, 0, 0), "c1", "", "c1", ""),
     Change(NoDate, LocalTime(z, FilterDay + 1, 23, 59, 59, 999),
            "", "", "", ""),
     Change(BadDate, NoDate, "c1", "", "c2", "")}

PlayerNamed(k, id, username, changes) ==
    [oid |-> <<1, k>>,
     user |-> [id |-> id, username |-> username, lastConnectionAt |-> NoDate,
               active |-> TRUE],
     citizenshipChanges |-> changes, loading |-> FALSE, error |-> ""]

Player(k, id, changes) == PlayerNamed(k, id, id, changes)

\* One or two players holding at most MaxRows change records together; the
\* second player may carry the username of the first.
ViewPlayers(z) ==
    {<<Player(1, "u1", a)>> : a \in SeqsUpTo(ChangePool(z), MaxRows)}
    \cup
    {<<Player(1, "u1", a), PlayerNamed(2, "u2", name, b)>> :
        a \in SeqsUpTo(ChangePool(z), MaxRows - 1),
        b \in {x \in SeqsUpTo(ChangePool(z), MaxRows) : Len(x) >= 1},
        name \in {"u1", "u2"}}

InitView ==
    /\ authToken = "tok" /\ apiToken = "tok" /\ selectedCountryId = "c1"
    /\ loading = FALSE /\ error = ""
    /\ tz \in ViewZones /\ now = RunNow
    /\ players \in {ps \in ViewPlayers(tz) : Len(Flatten(ps, 1)) <= MaxRows}
    /\ progress = [current |-> Len(players), total |-> Len(players)]
    /\ stats = [total |-> Len(players), active |-> Len(players), inactive |-> 0]
    /\ runs = <<>> /\ runCount = 0
    /\ InitViewVars /\ InitCacheVars /\ InitUserLite

NextView ==
    \/ ToggleSort
    \/ \E c \in Countries \cup {""} : SetFilterSource(c)
    \/ \E c \in Countries \cup {""} : SetFilterDestination(c)
    \/ \E d \in FilterDays \cup {NoDate} : SetFilterStartDate(d)
    \/ \E d \in FilterDays \cup {NoDate} : SetFilterEndDate(d)
    \/ ClearFilters

SpecView == InitView /\ [][NextView]_vars

(***************************************************************************)
(* Properties.                                                             *)
(***************************************************************************)
Range(f) == {f[x] : x \in DOMAIN f}

\* The inputs of the requests of one endpoint, in the order they were sent.
ReqArgs(reqs, kind) ==
    LET sel == SelectSeq(reqs, LAMBDA q : q.kind = kind)
    IN  [k \in DOMAIN sel |-> sel[k].arg]

\* The users of a run whose getUserLite returned active = true, in roster
\* order.
ActiveUsers(run) ==
    LET idx == SelectSeq([j \in 1..Len(run.lite) |-> j],
                         LAMBDA j : run.lite[j] = "active")
    IN  [k \in DOMAIN idx |-> run.allUsers[idx[k]]]

Zero2 == [current |-> 0, total |-> 0]
Zero3 == [total |-> 0, active |-> 0, inactive |-> 0]

\* C1: in a run whose roster fetch succeeded, the getUserLite requests are
\* the users of the roster, each once and in roster order: at every moment
\* a prefix of the roster that covers every user whose outcome is known, and
\* the whole roster once the run has finished, whatever failed on the way.
C1_EveryUserFetchedOnce ==
    \A r \in DOMAIN runs :
        runs[r].roster = "ok" =>
            LET a == ReqArgs(runs[r].reqs, "userLite")
            IN  /\ Len(a) <= Len(runs[r].allUsers)
                /\ a = SubSeq(runs[r].allUsers, 1, Len(a))
                /\ Len(runs[r].lite) <= Len(a)
                /\ Len(a) <= Len(runs[r].lite) + 1
                /\ (runs[r].pc = "done" => a = runs[r].allUsers)

\* C1 witness: a finished run of two users in which the first user's
\* change-log request failed and the second user's getUserLite failed.
C1_Witness ==
    \E r \in DOMAIN runs :
        /\ runs[r].pc = "done" /\ runs[r].roster = "ok"
        /\ runs[r].lite = <<"active", "failed">>
        /\ Len(players) = 1
        /\ players[1].error = PlayerError(NetworkError)
        /\ ReqArgs(runs[r].reqs, "userLite") = runs[r].allUsers

\* C2: a run whose roster fetch failed has sent the roster request and no
\* other, has left players empty and stats and progress at zero, has set a
\* non-empty error and has ended with loading false.
C2_RosterFailureAborts ==
    \A r \in DOMAIN runs :
        runs[r].roster = "failed" =>
            /\ runs[r].pc = "done"
            /\ runs[r].reqs = <<Request("roster", runs[r].country, NoHeader)>>
            /\ players = <<>>
            /\ stats = Zero3 /\ progress = Zero2
            /\ error # ""
            /\ loading = FALSE

\* C2 witness: the second run of the view ends on a failed roster fetch.
C2_Witness ==
    \E r \in DOMAIN runs : runs[r].roster = "failed" /\ runCount = 2

\* C3: no change-log request carries an empty Authorization value; the
\* change-log requests sent are exactly the calls made with a token stored;
\* a call made with no token leaves the authorization-required error on the
\* player, and only such a call does (a network failure leaves another).
C3_NoTokenNoRequest ==
    \A r \in DOMAIN runs :
        LET run  == runs[r]
            sent == SelectSeq(run.changeCalls, LAMBDA c : c.token # "")
            changeReqs == SelectSeq(run.reqs, LAMBDA q : q.kind = "changes")
        IN  /\ \A k \in DOMAIN run.reqs :
                   run.reqs[k].kind = "changes" => run.reqs[k].auth # ""
            /\ changeReqs = [k \in DOMAIN sent |->
                   Request("changes", sent[k].user, sent[k].token)]
            /\ \A k \in DOMAIN run.changeCalls :
                   \E j \in DOMAIN players :
                       /\ players[j].user.id = run.changeCalls[k].user
                       /\ (run.changeCalls[k].token = "" <=>
                              players[j].error = PlayerError(AuthRequired))
                       /\ (run.changeCalls[k].token = "" => ~players[j].loading)

\* C3 witness: the token was cleared while a run was in flight, and the run
\* called getCitizenshipChanges after that.
C3_Witness ==
    \E r \in DOMAIN runs :
        /\ \E k \in DOMAIN runs[r].changeCalls : runs[r].changeCalls[k].token = ""
        /\ \E j \in DOMAIN players : players[j].error = PlayerError(AuthRequired)
        /\ ReqArgs(runs[r].reqs, "changes") = <<>>

\* C4 as claimed: an id in the country cache stays in it and stays mapped
\* to the same record in every later state.
C4_EntryNeverReplaced ==
    [][\A id \in DOMAIN countryCache :
          /\ id \in DOMAIN countryCache'
          /\ countryCache'[id] = countryCache[id]]_vars

\* C4 amended: an id in the country cache stays in it in every later state;
\* its record changes only in a step in which a getAllCountries call, or a
\* getCountryById call for that id that was started before the id was
\* cached, stores its response.
C4_EntryNeverRemoved ==
    [][\A id \in DOMAIN countryCache :
          /\ id \in DOMAIN countryCache'
          /\ (countryCache'[id] # countryCache[id] =>
                 \E k \in DOMAIN calls :
                     /\ calls[k].pc = "await" /\ calls'[k].pc = "done"
                     /\ ~calls[k].hit
                     /\ (calls[k].op = "all" \/ calls[k].id = id))]_vars

\* C4 witness: a getCountryById call stored and returned a record for an id
\* whose cache entry has since been replaced by another record.
C4_Witness ==
    \E k \in DOMAIN calls :
        /\ calls[k].op = "byId" /\ calls[k].pc = "done" /\ calls[k].sent
        /\ calls[k].result # <<>>
        /\ calls[k].id \in DOMAIN countryCache
        /\ <<countryCache[calls[k].id]>> # calls[k].result

\* C5: a getCountryById call made when the id was in the cache has
\* returned at once the record the cache held and has sent no request.
C5_CachedLookupSendsNothing ==
    \A k \in DOMAIN calls :
        (calls[k].op = "byId" /\ calls[k].hit) =>
            /\ calls[k].pc = "done"
            /\ ~calls[k].sent
            /\ calls[k].result = calls[k].cached

\* C5 witness: a cache hit served while another call is still in flight.
C5_Witness ==
    \E k, j \in DOMAIN calls :
        /\ calls[k].op = "byId" /\ calls[k].hit /\ calls[k].pc = "done"
        /\ calls[k].result = <<countryCache[calls[k].id]>>
        /\ calls[j].pc = "await"

\* C6: at most one request of the orchestration pipeline is outstanding:
\* every unfinished run is suspended on exactly one request, and at most
\* one run is unfinished; loading is true while it is.
C6_OneRequestInFlight ==
    /\ Cardinality(Outstanding) <= 1
    /\ (Outstanding # {} => loading)

\* C6 witness: the second run is waiting for a change log after the user
\* changed the country selection and the token during it.
C6_Witness ==
    \E r \in DOMAIN runs :
        /\ runCount = 2 /\ runs[r].pc = "awaitChanges"
        /\ selectedCountryId # runs[r].country
        /\ authToken = ""

\* C7: in a run, the players list holds exactly the users whose getUserLite
\* returned active = true, in roster order; getCitizenshipChanges is called
\* for exactly these users and every change-log request is for one of them.
C7_OnlyActiveUsersTracked ==
    \A r \in DOMAIN runs :
        LET act == ActiveUsers(runs[r])
        IN  /\ [k \in DOMAIN players |-> players[k].user.id] = act
            /\ [k \in DOMAIN runs[r].changeCalls |->
                   runs[r].changeCalls[k].user] = act
            /\ Range(ReqArgs(runs[r].reqs, "changes")) \subseteq Range(act)

\* C7 witness: a finished run with an inactive user before an active one.
C7_Witness ==
    \E r \in DOMAIN runs :
        /\ runs[r].pc = "done"
        /\ runs[r].lite = <<"inactive", "active">>
        /\ Len(players) = 1
        /\ players[1].user.id = runs[r].allUsers[2]
        /\ ReqArgs(runs[r].reqs, "changes") = <<runs[r].allUsers[2]>>

\* C8 as claimed: active is true iff the last connection is no earlier than
\* 10 x 24 hours before the evaluation time, and false when it is missing.
C8_ActiveByElapsedTime ==
    /\ userLite.lastConnectionAt = NoDate => ~userLite.active
    /\ userLite.lastConnectionAt >= 0 =>
           (userLite.active <=>
               userLite.lastConnectionAt >= now - TenDays * MsPerDay)

\* The change of the zone's offset over the ten days before t.
OffsetChange(z, t) == Offset(z, t) - Offset(z, t - (TenDays + 1) * MsPerDay)

\* C8 amended: active is true iff the last connection is no earlier than the
\* instant at which the browser's local clock read the same time ten
\* calendar days before the evaluation time: 10 x 24 hours before it, less
\* the change of the zone's UTC offset over these days; it is false for an
\* earlier, a missing or an unparsable last connection.
C8_ActiveByLocalCalendar ==
    /\ userLite.lastConnectionAt \in {NoDate, BadDate} => ~userLite.active
    /\ userLite.lastConnectionAt >= 0 =>
           (userLite.active <=>
               userLite.lastConnectionAt >=
                   now - TenDays * MsPerDay + OffsetChange(tz, now))

\* C8 witness: with a daylight-saving change in the last ten days, a last
\* connection exactly on the boundary is active.
C8_Witness ==
    /\ OffsetChange(tz, now) # 0
    /\ userLite.lastConnectionAt =
           now - TenDays * MsPerDay + OffsetChange(tz, now)
    /\ userLite.active

\* A row passes every filter that is set.
PassesFilters(row) ==
    /\ (filterSourceCountryId # "" => row.fromCountryId = filterSourceCountryId)
    /\ (filterDestinationCountryId # "" =>
           row.toCountryId = filterDestinationCountryId)
    /\ (filterStartDate # NoDate =>
           DateGE(row.date, StartDate(tz, filterStartDate)))
    /\ (filterEndDate # NoDate =>
           DateLE(row.date, EndDate(tz, filterEndDate)))

\* C9: filteredChanges is allChanges restricted, in order, to the rows that
\* pass every filter that is set; with no filter set it is allChanges.
C9_FiltersAreConjunction ==
    /\ FilteredChanges = SelectSeq(AllChanges, PassesFilters)
    /\ (filterSourceCountryId = "" /\ filterDestinationCountryId = ""
        /\ filterStartDate = NoDate /\ filterEndDate = NoDate
           => FilteredChanges = AllChanges)

\* C9 witness: source and destination filters are set together and drop a
\* row that passes the source filter alone.
C9_Witness ==
    /\ filterSourceCountryId # "" /\ filterDestinationCountryId # ""
    /\ Len(FilteredChanges) = 1
    /\ \E k \in DOMAIN AllChanges :
           /\ AllChanges[k].fromCountryId = filterSourceCountryId
           /\ AllChanges[k].toCountryId # filterDestinationCountryId

\* C10 as claimed: with start and end date set to the same day D and no
\* country filter, a row with a valid date is kept iff its local time lies
\* within D 00:00:00.000 .. D 23:59:59.999.
C10_SameDayKeepsLocalDay ==
    (/\ filterStartDate # NoDate /\ filterEndDate = filterStartDate
     /\ filterSourceCountryId = "" /\ filterDestinationCountryId = "")
    => \A k \in DOMAIN AllChanges :
           LET row == AllChanges[k]
           IN  row.date # NaN =>
                   ((row \in Range(FilteredChanges)) <=>
                       /\ ToLocal(tz, row.date) >= DayMs(filterStartDate)
                       /\ ToLocal(tz, row.date) <=
                              DayMs(filterStartDate) + MsPerDay - 1)

\* The rows of a sequence that carry a given date, in their order.
WithDate(rows, v) == SelectSeq(rows, LAMBDA row : row.date = v)

\* C11 as claimed: the rows under 'asc' are the rows under 'desc' in
\* reverse, except that rows of equal date keep the order of the flattening
\* in both; toggling the sort order twice gives the order back.
C11_AscIsReverseOfDesc ==
    LET a == SortedChanges("asc")
        d == SortedChanges("desc")
        f == Flatten(players, 1)
    IN  /\ Len(a) = Len(f) /\ Len(d) = Len(f)
        /\ \A k \in DOMAIN a : a[k].date = d[Len(f) + 1 - k].date
        /\ \A k \in DOMAIN f :
               /\ WithDate(a, f[k].date) = WithDate(f, f[k].date)
               /\ WithDate(d, f[k].date) = WithDate(f, f[k].date)
        /\ Toggled(Toggled(sortOrder)) = sortOrder
        /\ AllChanges = IF sortOrder = "asc" THEN a ELSE d

\* The position of the first row of a username.
FirstRowOf(rows, name) ==
    CHOOSE k \in DOMAIN rows :
        /\ rows[k].username = name
        /\ \A j \in 1..(k - 1) : rows[j].username # name

RECURSIVE RowCount(_, _)
RowCount(groups, g) ==
    IF g > Len(groups) THEN 0
    ELSE Len(groups[g].changes) + RowCount(groups, g + 1)

C13_RowDateIsTimestampFirst ==
    \A k \in DOMAIN AllChanges :
        AllChanges[k].date = DiagramDate(AllChanges[k].change)

\* C14: a getCountryById call of an uncached identifier that fails ends with
\* the absence value, and the step that ends it leaves the cache exactly as
\* it was: the identifier is not added and no record is stored.
C14_FailedLookupLeavesCache ==
    [][\A k \in DOMAIN calls :
          (/\ calls[k].op = "byId" /\ calls[k].pc = "await"
           /\ k \in DOMAIN calls' /\ calls'[k].pc = "done"
           /\ calls'[k].result = <<>>)
          => /\ countryCache' = countryCache
             /\ calls'[k].sent /\ ~calls'[k].hit]_vars

\* C14 witness: a lookup has failed, its identifier is not in the cache, and
\* the cache holds another country.
C14_Witness ==
    \E k \in DOMAIN calls :
        /\ calls[k].op = "byId" /\ calls[k].pc = "done" /\ calls[k].sent
        /\ calls[k].result = <<>>
        /\ calls[k].id \notin DOMAIN countryCache
        /\ countryCache # <<>>

\* The number of users of a run whose getUserLite failed.
FailedUsers(run) == Cardinality({k \in DOMAIN run.lite : run.lite[k] = "failed"})

\* C15: in every state 0 <= stats.active + stats.inactive <= progress.current
\* <= progress.total = stats.total and players has stats.active entries; when
\* a run whose roster fetch succeeded has finished, progress.current =
\* progress.total and stats.total - (stats.active + stats.inactive) is the
\* number of users whose getUserLite failed.
C15_CountersConsistent ==
    /\ 0 <= stats.active + stats.inactive
    /\ stats.active + stats.inactive <= progress.current
    /\ progress.current <= progress.total
    /\ progress.total = stats.total
    /\ Len(players) = stats.active
    /\ \A r \in DOMAIN runs :
           (runs[r].pc = "done" /\ runs[r].roster = "ok") =>
               /\ progress.current = progress.total
               /\ stats.total = Len(runs[r].allUsers)
               /\ stats.total - (stats.active + stats.inactive)
                      = FailedUsers(runs[r])

\* C15 witness: a finished run over two users, one whose getUserLite failed
\* and one that is active.
C15_Witness ==
    \E r \in DOMAIN runs :
        /\ runs[r].pc = "done" /\ runs[r].roster = "ok"
        /\ Len(runs[r].allUsers) = 2
        /\ FailedUsers(runs[r]) = 1
        /\ stats.active = 1 /\ progress.current = 2

\* C16: at most one entry of players is loading, and it is the entry of the
\* user whose change-log request is outstanding; once a run has finished no
\* entry is loading, and each entry has either the items of a successful
\* getCitizenshipChanges and no error, or a non-empty error and no changes.
C16_LoadingFlagsSettle ==
    /\ Cardinality({k \in DOMAIN players : players[k].loading}) <= 1
    /\ \A k \in DOMAIN players :
           players[k].loading =>
               \E r \in DOMAIN runs :
                   /\ runs[r].pc = "awaitChanges"
                   /\ players[k].oid = <<r, runs[r].i>>
    /\ \A r \in DOMAIN runs :
           runs[r].pc = "done" =>
               /\ Len(players) = Len(runs[r].changeCalls)
               /\ \A k \in DOMAIN players :
                      LET call == runs[r].changeCalls[k]
                      IN  /\ ~players[k].loading
                          /\ \/ /\ call.outcome = "ok"
                                /\ players[k].error = ""
                                /\ players[k].citizenshipChanges = call.items
                             \/ /\ call.outcome = "failed"
                                /\ players[k].error # ""
                                /\ players[k].citizenshipChanges = <<>>

\* C16 witness: a finished run with one entry whose change-log request
\* failed and one entry that holds the changes of its response.
C16_Witness ==
    \E r \in DOMAIN runs :
        /\ runs[r].pc = "done"
        /\ Len(players) = 2
        /\ players[1].error = PlayerError(NetworkError)
        /\ players[2].error = "" /\ players[2].citizenshipChanges # <<>>

\* C17: every run that sets loading ends with loading reset, whatever mix of
\* requests succeeds or fails, when every issued request is answered; a run
\* issues at most 1 + 2 x (roster length) requests.
C17_RunTerminatesBounded ==
    /\ loading ~> ~loading
    /\ [](\A r \in DOMAIN runs :
             Len(runs[r].reqs) <= 1 + 2 * Len(runs[r].allUsers))

\* C17 witness: a finished run that issued the roster request and two
\* requests for each of two users.
C17_Witness ==
    \E r \in DOMAIN runs :
        /\ runs[r].pc = "done" /\ ~loading
        /\ Len(runs[r].allUsers) = 2
        /\ Len(runs[r].reqs) = 1 + 2 * Len(runs[r].allUsers)

====
